---------------------------- MODULE Spec2Model ----------------------------
(***************************************************************************)
(* Model of sync360.py: synchronisation of a department hierarchy and its  *)
(* users into a remote directory service.                                  *)
(*                                                                         *)
(*   Spec       the whole workflow of __main__ (lines 309-359), one run    *)
(*              after another against the same remote store                *)
(*   SpecHier   the ordering part of build_hierarchy_and_create            *)
(*              (lines 155-180) applied to every bounded input             *)
(*   SpecRetry  backoff_retry (lines 26-35) applied to every bounded       *)
(*              operation                                                  *)
(***************************************************************************)
EXTENDS Integers, Sequences, FiniteSets, TLC

VARIABLES
    dept_rows,      \* departments.csv after load_csv/validate_departments_csv
    user_rows,      \* users.csv after load_csv/validate_users_csv
    server_depts,   \* the remote service's department list
    server_users,   \* the remote service's user nicknames
    DEPT_CACHE,     \* the global DEPT_CACHE
    pc,             \* position of the run in __main__ and its callees
    page,           \* list_all_departments: page
    result,         \* list_all_departments: result
    listFor,        \* which refresh_dept_cache() is in progress
    order,          \* build_hierarchy_and_create: order
    idx,            \* build_hierarchy_and_create: position in "for ext in order"
    ext_to_id,      \* build_hierarchy_and_create: ext_to_id
    args,           \* arguments of the ensure_department call in progress
    uidx,           \* __main__: position in "for u in user_rows"
    results,        \* __main__: results
    error,          \* the exception that ended the run ("" while none)
    calls,          \* history: the HTTP requests sent in the current run
    lastCall,       \* history: the last backoff_retry(...) of the run
    outcomes,       \* history: how each ensure_department call returned
    run,            \* number of the current run
    prev,           \* history: the remote store when the current run started
    envLeft,        \* writes other clients of the service may still make
    h_in,           \* SpecHier / SpecRetry: the input drawn
    h_out           \* SpecHier / SpecRetry: the value computed

vars == << dept_rows, user_rows, server_depts, server_users, DEPT_CACHE, pc,
           page, result, listFor, order, idx, ext_to_id, args, uidx, results,
           error, calls, lastCall, outcomes, run, prev, envLeft, h_in, h_out >>

-----------------------------------------------------------------------------
(* Bounds of the model *)

MaxRows == 3        \* SpecHier: longest department input
MaxAttempts == 3    \* SpecRetry: largest retries argument
MaxBase == 2        \* SpecRetry: largest base argument
MaxDepts == 2       \* Spec: longest department input
MaxUsers == 2       \* Spec: longest user input
MaxServer == 2      \* Spec: departments on the remote service at the start
MaxRuns == 2        \* Spec: runs of the workflow in sequence
MaxEnv == 1         \* Spec: writes by other clients of the service
MaxTransient == 2   \* Spec: transient answers preceding the final answer
PageCap == 2        \* largest page the remote service returns

(* Program constants *)

Retries == 10       \* backoff_retry: retries=10
Base == 1           \* backoff_retry: base=1.0
per_page == 100     \* list_all_departments: per_page
Conflict == 409     \* the status ensure_department and create_user test for
OK == 200           \* a successful response
BadRequest == 400   \* a client error that is neither transient nor a conflict
NotFound == 404     \* another such client error
NoResponse == 0     \* an HTTPError whose response is None
NoId == 0           \* Python's None for parent_id / a missing parentId

TransientStatuses == {429, 500, 502, 503, 504}

-----------------------------------------------------------------------------
(* Small helpers *)

Min(a, b) == IF a < b THEN a ELSE b

\* the delay grows linearly
TimesTwo(n) == 2 * n

RECURSIVE Pow2(_)
Pow2(n) == IF n = 0 THEN 1 ELSE 2 * Pow2(n - 1)

RECURSIVE SumSeq(_)
SumSeq(s) == IF s = << >> THEN 0 ELSE Head(s) + SumSeq(Tail(s))

Range(s) == { s[i] : i \in 1..Len(s) }

EmptyMap == [x \in {} |-> 0]

\* all sequences over S of length 0..n
RECURSIVE SeqsUpTo(_, _)
SeqsUpTo(S, n) ==
    IF n = 0 THEN { << >> }
    ELSE LET shorter == SeqsUpTo(S, n - 1)
         IN  shorter \cup { Append(s, x) : s \in { t \in shorter : Len(t) = n - 1 }, x \in S }

-----------------------------------------------------------------------------
(* backoff_retry, lines 26-35 *)

\* every HTTPError that has a response taken for transient
IsTransientAny(status) == status # NoResponse

\* line 31: e.response is not None and e.response.status_code in (429, ...)
IsTransient(status) == status # NoResponse /\ status \in TransientStatuses

\* fn is the operation: fn[i+1] is what its (i+1)-th invocation does,
\* [kind |-> "return" | "HTTPError" | "other", status |-> ...].
RECURSIVE RetryLoop(_, _, _, _, _)
RetryLoop(fn, retries, base, i, sleeps) ==
    IF i >= retries
    THEN [kind |-> "RuntimeError", status |-> NoResponse, calls |-> i, sleeps |-> sleeps]
    ELSE LET o == fn[i + 1] IN
         IF o.kind = "return"
         THEN [kind |-> "return", status |-> o.status, calls |-> i + 1, sleeps |-> sleeps]
         ELSE IF o.kind = "HTTPError" /\ IsTransient(o.status)
         THEN RetryLoop(fn, retries, base, i + 1, Append(sleeps, base * Pow2(i)))
         ELSE [kind |-> o.kind, status |-> o.status, calls |-> i + 1, sleeps |-> sleeps]

backoff_retry(fn, retries, base) == RetryLoop(fn, retries, base, 0, << >>)


-----------------------------------------------------------------------------
(* build_hierarchy_and_create, lines 155-180: cycle check and ordering.   *)
(* rows is a sequence of [external_id, name, parent_external_id]; the     *)
(* external_ids are unique and not empty (validate_departments_csv).      *)

\* line 157: the keys of by_ext
ByExt(rows) == { rows[i].external_id : i \in 1..Len(rows) }

\* line 185: by_ext[ext]
RowOf(rows, ext) == rows[CHOOSE i \in 1..Len(rows) : rows[i].external_id = ext]

\* line 163: pe and pe in by_ext
HasEdge(rows, r) ==
    r.parent_external_id # "" /\ r.parent_external_id \in ByExt(rows)

\* the external_ids in input order: the insertion order of indeg's keys
RECURSIVE KeysOf(_)
KeysOf(rows) ==
    IF rows = << >> THEN << >> ELSE << Head(rows).external_id >> \o KeysOf(Tail(rows))

\* line 164: graph[pe], the children of pe in input order
RECURSIVE ChildrenOf(_, _, _)
ChildrenOf(all, rows, pe) ==
    IF rows = << >> THEN << >>
    ELSE (IF HasEdge(all, Head(rows)) /\ Head(rows).parent_external_id = pe
          THEN << Head(rows).external_id >> ELSE << >>)
         \o ChildrenOf(all, Tail(rows), pe)

Graph(rows) == [pe \in ByExt(rows) |-> ChildrenOf(rows, rows, pe)]

\* lines 165-167: indeg after the first loop
Indeg(rows) ==
    [e \in ByExt(rows) |->
        Cardinality({ i \in 1..Len(rows) :
                        rows[i].external_id = e /\ HasEdge(rows, rows[i]) })]

\* lines 174-177: for v in graph.get(u, [])
RECURSIVE Relax(_, _, _)
Relax(children, indeg, q) ==
    IF children = << >> THEN [indeg |-> indeg, q |-> q]
    ELSE LET v == Head(children)
             d == indeg[v] - 1
         IN  Relax(Tail(children), [indeg EXCEPT ![v] = d],
                   IF d = 0 THEN Append(q, v) ELSE q)

\* lines 171-177: while q
RECURSIVE KahnLoop(_, _, _, _)
KahnLoop(q, ord, indeg, graph) ==
    IF q = << >> THEN ord
    ELSE LET u == Head(q)
             st == Relax(graph[u], indeg, Tail(q))
         IN  KahnLoop(st.q, Append(ord, u), st.indeg, graph)

\* the input order, unsorted
KahnOrderUnsorted(rows) == KeysOf(rows)

\* lines 169-177
KahnOrder(rows) ==
    LET indeg == Indeg(rows)
        keys == KeysOf(rows)
        zero(k) == indeg[k] = 0
    IN  KahnLoop(SelectSeq(keys, zero), << >>, indeg, Graph(rows))

\* the check left out
CycleCheckOff(rows, ord) == FALSE

\* line 179
CycleCheck(rows, ord) == Len(ord) # Len(rows)

\* lines 155-180 as a whole
Resolve(rows) ==
    LET ord == KahnOrder(rows)
    IN  IF CycleCheck(rows, ord)
        THEN [error |-> "ValueError:cycle", order |-> << >>]
        ELSE [error |-> "", order |-> ord]

-----------------------------------------------------------------------------
(* Inputs *)

ExtIds3 == << "a", "b", "c", "d", "e" >>
OutOfSet == "z"                 \* an external id no input row has
Names == { "N1", "N2" }

ExtSet(n) == { ExtIds3[i] : i \in 1..Min(n, Len(ExtIds3)) }

DeptRow(e, nm, pe) == [external_id |-> e, name |-> nm, parent_external_id |-> pe]

\* the department inputs validate_departments_csv accepts, lines 245-257
DeptInputs(n, names) ==
    { rows \in SeqsUpTo({ DeptRow(e, nm, pe) : e \in ExtSet(n), nm \in names,
                                               pe \in ExtSet(n) \cup { "", OutOfSet } }, n) :
        \A i, j \in 1..Len(rows) : rows[i].external_id = rows[j].external_id => i = j }

\* The names are interchangeable: the first row is given the first of them.
MainDeptInputs ==
    { rows \in DeptInputs(MaxDepts, Names) : rows # << >> => rows[1].name = "N1" }

Ret(status) == [kind |-> "return", status |-> status]
Raise(status) == [kind |-> "HTTPError", status |-> status]
OtherExc == [kind |-> "other", status |-> NoResponse]

FnOutcomes ==
    { Ret(OK), OtherExc }
    \cup { Raise(s) : s \in TransientStatuses \cup { BadRequest, NotFound, NoResponse } }

RetryInputs ==
    { [fn |-> f, retries |-> Len(f), base |-> b] :
        f \in SeqsUpTo(FnOutcomes, MaxAttempts), b \in 1..MaxBase }

-----------------------------------------------------------------------------
(* The remote directory service, as the HTTP client sees it.               *)
(* A department is [id, externalId, name, parentId]; ids are 1, 2, ... in  *)
(* creation order and nothing is ever deleted.                             *)

Dept(id, ext, nm, par) == [id |-> id, externalId |-> ext, name |-> nm, parentId |-> par]

HasExt(depts, ext) == \E i \in 1..Len(depts) : depts[i].externalId = ext

HasName(depts, nm) == \E i \in 1..Len(depts) : depts[i].name = nm

HasId(depts, id) == \E i \in 1..Len(depts) : depts[i].id = id

UniqueExt(depts) ==
    \A i, j \in 1..Len(depts) :
        (depts[i].externalId # "" /\ depts[i].externalId = depts[j].externalId) => i = j

\* the page size the service uses for ?perPage=per_page
PageSize == Min(per_page, PageCap)

\* GET .../departments?page=p: the "departments" and "pages" of the answer
ServerPage(depts, p) ==
    LET n == Len(depts)
        lo == (p - 1) * PageSize + 1
        hi == Min(p * PageSize, n)
    IN  [departments |-> IF lo > hi THEN << >> ELSE SubSeq(depts, lo, hi),
         pages |-> IF n = 0 THEN 1 ELSE (n + PageSize - 1) \div PageSize]

\* What the service may finally answer to each request.  A conflict is
\* signalled by 409; an existing external id or nickname always conflicts,
\* an existing name may.
\* the failure other than a transient one or a conflict that the service
\* answers with in Spec
ServiceErrors == { BadRequest }

ListAnswers == { OK } \cup ServiceErrors

UpdateAnswers(depts, id, ext) ==
    (IF ~HasId(depts, id) THEN { NotFound }
     ELSE IF \E i \in 1..Len(depts) : depts[i].externalId = ext /\ depts[i].id # id
          THEN { Conflict }
          ELSE { OK })
    \cup ServiceErrors

CreateAnswers(depts, nm, ext) ==
    (IF HasExt(depts, ext) THEN { Conflict }
     ELSE IF HasName(depts, nm) THEN { Conflict, OK }
          ELSE { OK })
    \cup ServiceErrors

CreateUserAnswers(users, nick) ==
    (IF nick \in users THEN { Conflict } ELSE { OK })
    \cup ServiceErrors

\* How the service answers the successive attempts of one request: k times
\* 503, then final.  k = 0: final at once; k = MaxTransient: final is a
\* success; k = Retries: 503 on every attempt.  finals holds no transient
\* status: a transient answer is a plan with k > 0.
Plans(finals) ==
    { [k |-> 0, final |-> f] : f \in finals }
    \cup { [k |-> MaxTransient, final |-> f] : f \in finals \cap { OK } }
    \cup { [k |-> Retries, final |-> 503] }

\* S.get / S.post / S.patch as the operation given to backoff_retry
\* (lines 47, 100, 132, 225): requests returns the response whatever its
\* status; only raise_for_status() raises HTTPError.
RequestsFn(plan) ==
    [i \in 1..Retries |-> Ret(IF i <= plan.k THEN 503 ELSE plan.final)]

\* r = backoff_retry(lambda: S.<method>(url, ...)) and what it took
Send(plan) == backoff_retry(RequestsFn(plan), Retries, Base)

\* no status is an error
IsErrorStatusNever(status) == FALSE

\* r.raise_for_status() would raise
IsErrorStatus(status) == status >= 400

-----------------------------------------------------------------------------
(* Department cache lookups, lines 64-76.  0 stands for None. *)

\* the first index of a for loop over the cache that returns
FirstOf(S) == IF S = {} THEN 0 ELSE CHOOSE i \in S : \A j \in S : i <= j

\* a lookup that never finds anything
find_nothing(cache, external_id) == 0

\* lines 64-69
find_department_by_external_id(cache, external_id) ==
    FirstOf({ i \in 1..Len(cache) : cache[i].externalId = external_id })

\* lines 71-76
find_department_by_name(cache, name) ==
    FirstOf({ i \in 1..Len(cache) : cache[i].name = name })

-----------------------------------------------------------------------------
(* History records *)

Call(op, pg, id, ext, parent, nick, keys, status) ==
    [op |-> op, page |-> pg, id |-> id, ext |-> ext, parent |-> parent,
     nick |-> nick, keys |-> keys, status |-> status]

\* lines 91-95: the body of the update; the rows of the model carry neither
\* label nor description, so only externalId is sent
UpdatePayload(external_id) == { "externalId" }

\* lines 117-126: the body of the create; parentId only "if parent_id"
CreatePayload(parent_id) ==
    { "name", "externalId" } \cup (IF parent_id # NoId THEN { "parentId" } ELSE {})

\* lines 209-222: the body of the create-user call
UserPayload ==
    { "nickname", "departmentId", "name", "position", "language", "timezone",
      "externalId", "password", "passwordChangeRequired" }

Sent(op, plan, rr) ==
    [op |-> op, plan |-> plan, kind |-> rr.kind, status |-> rr.status,
     calls |-> rr.calls, sleeps |-> rr.sleeps]

NoCall == [op |-> "", plan |-> [k |-> 0, final |-> OK], kind |-> "", status |-> NoResponse,
           calls |-> 0, sleeps |-> << >>]

Err(type, status, where) == [type |-> type, status |-> status, where |-> where]

NoError == Err("", NoResponse, "")

NoArgs == [name |-> "", external_id |-> "", parent_id |-> NoId, target |-> 0, fell |-> FALSE]

-----------------------------------------------------------------------------
(* The values the variables of the workflow have while a harness runs *)

Neutral ==
    /\ dept_rows = << >> /\ user_rows = << >>
    /\ server_depts = << >> /\ server_users = {}
    /\ DEPT_CACHE = << >> /\ page = 1 /\ result = << >> /\ listFor = ""
    /\ order = << >> /\ idx = 0 /\ ext_to_id = EmptyMap
    /\ args = NoArgs /\ uidx = 0 /\ results = << >> /\ error = NoError
    /\ calls = << >> /\ lastCall = NoCall /\ outcomes = << >>
    /\ run = 0 /\ prev = << >> /\ envLeft = 0

mainVars == << dept_rows, user_rows, server_depts, server_users, DEPT_CACHE,
               page, result, listFor, order, idx, ext_to_id, args, uidx,
               results, error, calls, lastCall, outcomes, run, prev, envLeft >>

-----------------------------------------------------------------------------
(* Spec: the workflow of __main__, lines 309-359 *)

Nicks == << "u1", "u2", "u3", "u4" >>

UserRow(n, d) == [nickname |-> n, dept_external_id |-> d]

\* the user inputs validate_users_csv accepts, lines 259-271
UserInputs ==
    { rows \in SeqsUpTo({ UserRow(Nicks[i], d) : i \in 1..Min(MaxUsers, Len(Nicks)),
                                                 d \in { "a", OutOfSet } }, MaxUsers) :
        \A i \in 1..Len(rows) : rows[i].nickname = Nicks[i] }

\* what the service holds before the first run
ServerInits ==
    { depts \in { [i \in 1..Len(s) |-> Dept(i, s[i][1], s[i][2], NoId)] :
                    s \in SeqsUpTo({ "", "a", OutOfSet } \X Names, MaxServer) } :
        UniqueExt(depts) }

\* lines 325-327: the state of a run when its first refresh begins
StartRun ==
    /\ DEPT_CACHE = << >>
    /\ pc = "list" /\ listFor = "init" /\ page = 1 /\ result = << >>
    /\ order = << >> /\ idx = 0 /\ ext_to_id = EmptyMap /\ args = NoArgs
    /\ uidx = 0 /\ results = << >> /\ error = NoError
    /\ calls = << >> /\ lastCall = NoCall /\ outcomes = << >>

Init ==
    /\ dept_rows \in MainDeptInputs
    /\ user_rows \in UserInputs
    /\ server_depts \in ServerInits
    /\ server_users \in { {}, { "u1" } }
    /\ StartRun
    /\ run = 1
    /\ prev = [depts |-> server_depts, users |-> server_users]
    /\ envLeft = MaxEnv
    /\ h_in = << >> /\ h_out = << >>

inputVars == << dept_rows, user_rows, h_in, h_out >>
deptVars == << order, idx, ext_to_id, args, outcomes >>
userVars == << uidx, results >>
listVars == << page, result, listFor >>
runVars == << run, prev >>

\* the exception that leaves a callee reaches line 357: the run ends
Fail(e) == pc' = "failed" /\ error' = e

\* the loop stops after the first page
LastPageAlways(pg, pages) == TRUE

\* line 52: page >= data.get("pages", 1)
LastPage(pg, pages) == pg >= pages

\* the listing is added to the entries the cache had
RefreshedOnTop(old, listed) == old \o listed

\* line 205: DEPT_CACHE = list_all_departments()
Refreshed(old, listed) == listed

\* One iteration of the loop of list_all_departments, lines 43-60, and, after
\* the last page, the assignment of refresh_dept_cache, line 205.
ListPage ==
    /\ pc = "list"
    /\ \E plan \in Plans(ListAnswers) :
        LET rr == Send(plan)
            data == ServerPage(server_depts, page)
            got == result \o data.departments
        IN  /\ calls' = Append(calls, Call("list", page, NoId, "", NoId, "", {}, rr.status))
            /\ lastCall' = Sent("list", plan, rr)
            /\ IF rr.kind # "return"
               THEN /\ Fail(Err(rr.kind, rr.status, "list"))
                    /\ UNCHANGED << page, result, DEPT_CACHE, uidx >>
               ELSE IF IsErrorStatus(rr.status)
               THEN /\ Fail(Err("HTTPError", rr.status, "list"))
                    /\ UNCHANGED << page, result, DEPT_CACHE, uidx >>
               ELSE IF LastPage(page, data.pages)
               THEN /\ result' = got
                    /\ DEPT_CACHE' = Refreshed(DEPT_CACHE, got)
                    /\ pc' = CASE listFor = "init" -> "hier"
                               [] listFor = "conflict" -> "recheck"
                               [] OTHER -> "users"
                    /\ uidx' = IF listFor = "after" THEN 1 ELSE uidx
                    /\ UNCHANGED << page, error >>
               ELSE /\ page' = page + 1
                    /\ result' = got
                    /\ UNCHANGED << pc, error, DEPT_CACHE, uidx >>
    /\ UNCHANGED << inputVars, deptVars, runVars, server_depts, server_users,
                    listFor, results, envLeft >>

\* build_hierarchy_and_create, lines 155-183
BuildHierarchy ==
    /\ pc = "hier"
    /\ LET r == Resolve(dept_rows)
       IN  IF r.error # ""
           THEN /\ Fail(Err(r.error, NoResponse, "hier"))
                /\ UNCHANGED << order, idx >>
           ELSE /\ order' = r.order
                /\ idx' = 1
                /\ pc' = "loop"
                /\ UNCHANGED error
    /\ UNCHANGED << inputVars, runVars, listVars, userVars, server_depts, server_users,
                    DEPT_CACHE, ext_to_id, args, outcomes, calls, lastCall, envLeft >>

\* the loop stops after the first record
LoopOverEarly(i, ord) == i > Min(Len(ord), 1)

\* line 184: "for ext in order" is exhausted
LoopOver(i, ord) == i > Len(ord)

\* lines 184-199: the head of "for ext in order", up to the call of
\* ensure_department
NextDept ==
    /\ pc = "loop"
    /\ ~LoopOver(idx, order)
    /\ LET r == RowOf(dept_rows, order[idx])
           pe == r.parent_external_id
           parent_id == IF pe # "" /\ pe \in DOMAIN ext_to_id THEN ext_to_id[pe] ELSE NoId
       IN  IF pe # "" /\ parent_id = NoId /\ pe \in ByExt(dept_rows)
           THEN /\ Fail(Err("RuntimeError:parent", NoResponse, "loop"))
                /\ UNCHANGED args
           ELSE /\ args' = [name |-> r.name, external_id |-> r.external_id,
                            parent_id |-> parent_id, target |-> 0, fell |-> FALSE]
                /\ pc' = "lookup"
                /\ UNCHANGED error
    /\ UNCHANGED << inputVars, runVars, listVars, userVars, server_depts, server_users,
                    DEPT_CACHE, order, idx, ext_to_id, outcomes, calls, lastCall, envLeft >>

\* lines 201 and 332-335: the loop is over, the cache is refreshed
DeptsDone ==
    /\ pc = "loop"
    /\ LoopOver(idx, order)
    /\ pc' = "list" /\ listFor' = "after" /\ page' = 1 /\ result' = << >>
    /\ UNCHANGED << inputVars, runVars, deptVars, userVars, server_depts, server_users,
                    DEPT_CACHE, error, calls, lastCall, envLeft >>

\* ensure_department returns dep_id: line 200 and the next iteration
Returned(how, dep_id) ==
    /\ ext_to_id' = (args.external_id :> dep_id) @@ ext_to_id
    /\ outcomes' = Append(outcomes, [ext |-> args.external_id, how |-> how, id |-> dep_id])
    /\ idx' = idx + 1
    /\ pc' = "loop"

\* any department of that name is taken over
AdoptableAny(d) == TRUE

\* line 87: not existing_by_name.get("externalId")
Adoptable(d) == d.externalId = ""

\* ensure_department, lines 80-87: the two cache lookups
Lookup ==
    /\ pc = "lookup"
    /\ LET existing == find_department_by_external_id(DEPT_CACHE, args.external_id)
           existing_by_name == find_department_by_name(DEPT_CACHE, args.name)
       IN  IF existing # 0
           THEN /\ Returned("hit", DEPT_CACHE[existing].id)
                /\ UNCHANGED args
           ELSE IF existing_by_name # 0 /\ Adoptable(DEPT_CACHE[existing_by_name])
           THEN /\ args' = [args EXCEPT !.target = DEPT_CACHE[existing_by_name].id]
                /\ pc' = "update"
                /\ UNCHANGED << ext_to_id, outcomes, idx >>
           ELSE /\ pc' = "create"
                /\ UNCHANGED << args, ext_to_id, outcomes, idx >>
    /\ UNCHANGED << inputVars, runVars, listVars, userVars, server_depts, server_users,
                    DEPT_CACHE, order, error, calls, lastCall, envLeft >>

\* lines 106-110: the cache entry of that id is replaced
ReplaceById(cache, id, updated) ==
    LET i == FirstOf({ j \in 1..Len(cache) : cache[j].id = id })
    IN  IF i = 0 THEN cache ELSE [cache EXCEPT ![i] = updated]

\* no exception is caught
CaughtNothing(type) == FALSE

\* line 113: except requests.HTTPError
CaughtInUpdate(type) == type = "HTTPError"

\* ensure_department, lines 88-115: the update that adopts a department
UpdateCall ==
    /\ pc = "update"
    /\ \E plan \in Plans(UpdateAnswers(server_depts, args.target, args.external_id)) :
        LET rr == Send(plan)
            i == FirstOf({ j \in 1..Len(server_depts) : server_depts[j].id = args.target })
            \* what the try block raises: fn's exception, or line 99's HTTPError
            exc == IF rr.kind # "return" THEN rr.kind
                   ELSE IF IsErrorStatus(rr.status) THEN "HTTPError" ELSE ""
        IN  /\ calls' = Append(calls, Call("update", 0, args.target, args.external_id,
                                           NoId, "", UpdatePayload(args.external_id),
                                           rr.status))
            /\ lastCall' = Sent("update", plan, rr)
            /\ IF exc # "" /\ ~CaughtInUpdate(exc)
               THEN /\ Fail(Err(exc, rr.status, "update"))
                    /\ UNCHANGED << server_depts, DEPT_CACHE, deptVars >>
               ELSE IF exc # ""
               THEN \* line 113: caught, "Will try to create new one..."
                    /\ args' = [args EXCEPT !.fell = TRUE]
                    /\ pc' = "create"
                    /\ UNCHANGED << server_depts, DEPT_CACHE, error, order, idx,
                                    ext_to_id, outcomes >>
               ELSE LET updated == [server_depts[i] EXCEPT !.externalId = args.external_id]
                    IN  /\ server_depts' = [server_depts EXCEPT ![i] = updated]
                        /\ DEPT_CACHE' = ReplaceById(DEPT_CACHE, args.target, updated)
                        /\ Returned("adopted", updated.id)
                        /\ UNCHANGED << error, order, args >>
    /\ UNCHANGED << inputVars, runVars, listVars, userVars, server_users, envLeft >>

\* the created department is entered twice
AppendCreatedTwice(cache, created) == Append(Append(cache, created), created)

\* line 146: DEPT_CACHE.append(created)
AppendCreated(cache, created) == Append(cache, created)

\* ensure_department, lines 117-153: the create call
CreateCall ==
    /\ pc = "create"
    /\ \E plan \in Plans(CreateAnswers(server_depts, args.name, args.external_id)) :
        LET rr == Send(plan)
            created == Dept(Len(server_depts) + 1, args.external_id, args.name, args.parent_id)
        IN  /\ calls' = Append(calls, Call("create", 0, 0, args.external_id,
                                           args.parent_id, "",
                                           CreatePayload(args.parent_id), rr.status))
            /\ lastCall' = Sent("create", plan, rr)
            /\ IF rr.kind # "return"
               THEN /\ Fail(Err(rr.kind, rr.status, "create"))
                    /\ UNCHANGED << server_depts, DEPT_CACHE, deptVars, listVars >>
               ELSE IF rr.status = Conflict
               THEN \* line 136: refresh_dept_cache()
                    /\ pc' = "list" /\ listFor' = "conflict" /\ page' = 1 /\ result' = << >>
                    /\ UNCHANGED << server_depts, DEPT_CACHE, deptVars, error >>
               ELSE IF IsErrorStatus(rr.status)
               THEN /\ Fail(Err("HTTPError", rr.status, "create"))
                    /\ UNCHANGED << server_depts, DEPT_CACHE, deptVars, listVars >>
               ELSE /\ server_depts' = Append(server_depts, created)
                    /\ DEPT_CACHE' = AppendCreated(DEPT_CACHE, created)
                    /\ Returned("created", created.id)
                    /\ UNCHANGED << error, order, args, listVars >>
    /\ UNCHANGED << inputVars, runVars, userVars, server_users, envLeft >>

\* ensure_department, lines 137-140: the lookup after the refresh
Recheck ==
    /\ pc = "recheck"
    /\ LET existing == find_department_by_external_id(DEPT_CACHE, args.external_id)
       IN  IF existing # 0
           THEN /\ Returned("conflict_resolved", DEPT_CACHE[existing].id)
                /\ UNCHANGED error
           ELSE /\ Fail(Err("HTTPError", Conflict, "recheck"))
                /\ UNCHANGED << ext_to_id, outcomes, idx >>
    /\ UNCHANGED << inputVars, runVars, listVars, userVars, server_depts, server_users,
                    DEPT_CACHE, order, args, calls, lastCall, envLeft >>

\* the test left out
DeptResolvedAlways(u, map) == TRUE

\* line 341: u["dept_external_id"] in ext_to_id
DeptResolved(u, map) == u.dept_external_id \in DOMAIN map

\* lines 340-342: a user whose department is not in ext_to_id
UserUnresolved ==
    /\ pc = "users"
    /\ uidx <= Len(user_rows)
    /\ ~DeptResolved(user_rows[uidx], ext_to_id)
    /\ Fail(Err("ValueError:department", NoResponse, "users"))
    /\ UNCHANGED << inputVars, runVars, listVars, deptVars, userVars, server_depts,
                    server_users, DEPT_CACHE, calls, lastCall, envLeft >>

\* no answer to the create-user call counts as "exists"
UserConflictNever(status) == FALSE

\* line 226: r.status_code == 409
UserConflict(status) == status = Conflict

\* lines 343-346 and create_user, lines 207-230
CreateUser ==
    /\ pc = "users"
    /\ uidx <= Len(user_rows)
    /\ DeptResolved(user_rows[uidx], ext_to_id)
    /\ LET u == user_rows[uidx]
       IN  IF u.dept_external_id \notin DOMAIN ext_to_id
           THEN \* line 208: ext_to_id[...] raises KeyError
                /\ Fail(Err("KeyError", NoResponse, "create_user"))
                /\ UNCHANGED << server_users, userVars, calls, lastCall >>
           ELSE \E plan \in Plans(CreateUserAnswers(server_users, u.nickname)) :
            LET rr == Send(plan)
                dept_id == ext_to_id[u.dept_external_id]
            IN  /\ calls' = Append(calls, Call("create_user", 0, dept_id, "", NoId,
                                               u.nickname, UserPayload, rr.status))
                /\ lastCall' = Sent("create_user", plan, rr)
                /\ IF rr.kind # "return"
                   THEN /\ Fail(Err(rr.kind, rr.status, "create_user"))
                        /\ UNCHANGED << server_users, userVars >>
                   ELSE IF UserConflict(rr.status)
                   THEN /\ results' = Append(results, [status |-> "exists", nickname |-> u.nickname])
                        /\ uidx' = uidx + 1
                        /\ UNCHANGED << server_users, pc, error >>
                   ELSE IF IsErrorStatus(rr.status)
                   THEN /\ Fail(Err("HTTPError", rr.status, "create_user"))
                        /\ UNCHANGED << server_users, userVars >>
                   ELSE /\ server_users' = server_users \cup { u.nickname }
                        /\ results' = Append(results, [status |-> "created", nickname |-> u.nickname])
                        /\ uidx' = uidx + 1
                        /\ UNCHANGED << pc, error >>
    /\ UNCHANGED << inputVars, runVars, listVars, deptVars, server_depts, DEPT_CACHE, envLeft >>

\* lines 348-355: the loop is over, the results are printed
UsersDone ==
    /\ pc = "users"
    /\ uidx > Len(user_rows)
    /\ pc' = "done"
    /\ UNCHANGED << inputVars, runVars, listVars, deptVars, userVars, server_depts,
                    server_users, DEPT_CACHE, error, calls, lastCall, envLeft >>

\* the workflow is started again with the same input, after a run that
\* completed
Rerun ==
    /\ pc = "done"
    /\ run < MaxRuns
    /\ run' = run + 1
    /\ prev' = [depts |-> server_depts, users |-> server_users]
    /\ DEPT_CACHE' = << >>
    /\ pc' = "list" /\ listFor' = "init" /\ page' = 1 /\ result' = << >>
    /\ order' = << >> /\ idx' = 0 /\ ext_to_id' = EmptyMap /\ args' = NoArgs
    /\ uidx' = 0 /\ results' = << >> /\ error' = NoError
    /\ calls' = << >> /\ lastCall' = NoCall /\ outcomes' = << >>
    /\ UNCHANGED << inputVars, server_depts, server_users, envLeft >>

\* Another client of the service (a parallel run of the same input) creates
\* one of the input's departments.  The steps of the run between two requests
\* do not read the service, so the write is placed where the next step of
\* the run is a request.
OtherClientCreates ==
    /\ envLeft > 0
    /\ pc \in { "list", "update", "create", "users" }
    /\ \E i \in 1..Len(dept_rows) :
        /\ ~HasExt(server_depts, dept_rows[i].external_id)
        /\ server_depts' = Append(server_depts,
                                  Dept(Len(server_depts) + 1, dept_rows[i].external_id,
                                       dept_rows[i].name, NoId))
    /\ envLeft' = envLeft - 1
    /\ UNCHANGED << inputVars, runVars, listVars, deptVars, userVars, server_users,
                    DEPT_CACHE, pc, error, calls, lastCall >>

Next ==
    \/ ListPage
    \/ BuildHierarchy
    \/ NextDept
    \/ DeptsDone
    \/ Lookup
    \/ UpdateCall
    \/ CreateCall
    \/ Recheck
    \/ UserUnresolved
    \/ CreateUser
    \/ UsersDone
    \/ Rerun
    \/ OtherClientCreates

Spec == Init /\ [][Next]_vars

-----------------------------------------------------------------------------
(* SpecHier: the ordering applied to every bounded input *)

InitHier ==
    /\ Neutral
    /\ pc = "hier_in"
    /\ h_in \in DeptInputs(MaxRows, { "N1" })
    /\ h_out = << >>

HierResolve ==
    /\ pc = "hier_in"
    /\ h_out' = Resolve(h_in)
    /\ pc' = "hier_out"
    /\ UNCHANGED << mainVars, h_in >>

NextHier == HierResolve

SpecHier == InitHier /\ [][NextHier]_vars

-----------------------------------------------------------------------------
(* SpecRetry: backoff_retry applied to every bounded operation *)

InitRetry ==
    /\ Neutral
    /\ pc = "retry_in"
    /\ h_in \in RetryInputs
    /\ h_out = << >>

RetryApply ==
    /\ pc = "retry_in"
    /\ h_out' = backoff_retry(h_in.fn, h_in.retries, h_in.base)
    /\ pc' = "retry_out"
    /\ UNCHANGED << mainVars, h_in >>

NextRetry == RetryApply

SpecRetry == InitRetry /\ [][NextRetry]_vars

-----------------------------------------------------------------------------
(* Claims about the ordering *)

\* the in-set parent of e, "" when it has none
ParentIn(rows, e) ==
    IF HasEdge(rows, RowOf(rows, e)) THEN RowOf(rows, e).parent_external_id ELSE ""

RECURSIVE Climb(_, _, _)
Climb(rows, e, n) ==
    IF e = "" \/ n = 0 THEN e ELSE Climb(rows, ParentIn(rows, e), n - 1)

\* no chain of in-set parent links returns to where it started
Acyclic(rows) == \A e \in ByExt(rows) : Climb(rows, e, Len(rows)) = ""

IsPermutationOf(ord, S) ==
    /\ Len(ord) = Cardinality(S)
    /\ Range(ord) = S

ParentsFirst(rows, ord) ==
    \A i, j \in 1..Len(ord) :
        ParentIn(rows, ord[j]) = ord[i] => i < j

ExampleCBA == << DeptRow("c", "N1", "b"), DeptRow("b", "N1", "a"), DeptRow("a", "N1", "") >>

\* C1: for every acyclic input with unique external_ids the computed order
\* is a permutation of the input's external_ids with every record after its
\* in-set parent; the input [C(parent=B), B(parent=A), A] gives [A, B, C].
C1_TopologicalOrder ==
    (pc = "hier_out" /\ Acyclic(h_in)) =>
        /\ h_out.error = ""
        /\ IsPermutationOf(h_out.order, ByExt(h_in))
        /\ ParentsFirst(h_in, h_out.order)
        /\ (h_in = ExampleCBA => h_out.order = << "a", "b", "c" >>)

C1_Witness ==
    /\ pc = "hier_out"
    /\ h_in = ExampleCBA
    /\ h_out.order = << "a", "b", "c" >>

-----------------------------------------------------------------------------
(* Claims about the retry wrapper alone *)

TransientFailure(o) == o.kind = "HTTPError" /\ o.status \in TransientStatuses

OtherFailure(o) == o.kind # "return" /\ ~TransientFailure(o)

\* the invocation on which a failure that is not transient occurs, all the
\* invocations before it having failed transiently
NonTransientAt(fn, j) ==
    /\ j \in 1..Len(fn)
    /\ OtherFailure(fn[j])
    /\ \A m \in 1..(j - 1) : TransientFailure(fn[m])

\* C8: a failure that is not transient is propagated on the attempt where it
\* occurs: the operation is not invoked again and no sleep follows it,
\* whatever number of transient failures came before.
C8_NonTransientPropagates ==
    pc = "retry_out" =>
        \A j \in 1..Len(h_in.fn) :
            NonTransientAt(h_in.fn, j) =>
                /\ h_out.kind = h_in.fn[j].kind
                /\ h_out.status = h_in.fn[j].status
                /\ h_out.calls = j
                /\ Len(h_out.sleeps) = j - 1

C8_Witness ==
    /\ pc = "retry_out"
    /\ h_in.fn = << Raise(503), Raise(429), Raise(BadRequest) >>
    /\ h_out.kind = "HTTPError" /\ h_out.status = BadRequest
    /\ h_out.calls = 3 /\ Len(h_out.sleeps) = 2

-----------------------------------------------------------------------------
(* Claims about the workflow *)

CallsOf(ops) == SelectSeq(calls, LAMBDA c : c.op \in ops)

\* the run is inside ensure_department, called with args
InEnsure ==
    \/ pc \in { "lookup", "update", "create", "recheck" }
    \/ (pc = "list" /\ listFor = "conflict")

\* C2: an input with a cycle among its in-set parent links (a self-parent
\* included, acyclic records beside the cycle included) fails with the cycle
\* error, and no create-department or update-department request is sent in
\* that run, not even for the acyclic records.
C2_CycleFailsBeforeAnyWrite ==
    ~Acyclic(dept_rows) =>
        /\ \A i \in 1..Len(calls) : calls[i].op = "list"
        /\ outcomes = << >>
        /\ pc \in { "list", "hier", "failed" }
        /\ (pc = "failed" /\ error.where # "list") =>
                (error.where = "hier" /\ error.type = "ValueError:cycle")

C2_Witness ==
    /\ pc = "failed"
    /\ error.type = "ValueError:cycle"
    /\ \E e1, e2 \in ByExt(dept_rows) :
        /\ Climb(dept_rows, e1, Len(dept_rows)) # ""
        /\ Climb(dept_rows, e2, Len(dept_rows)) = ""
    /\ \E i \in 1..Len(DEPT_CACHE) : DEPT_CACHE[i].externalId = ""

\* C9: departments are processed one at a time in the computed order; when
\* ensure_department is called for a record whose parent is in the input,
\* the parent is already in ext_to_id and its remote id is the parent
\* reference passed; the "parent not created" guard never fires.
C9_ParentResolvedFirst ==
    /\ error.type # "RuntimeError:parent"
    /\ \A i \in 1..Len(outcomes) : i <= Len(order) /\ outcomes[i].ext = order[i]
    /\ InEnsure =>
        /\ idx = Len(outcomes) + 1
        /\ idx <= Len(order) /\ args.external_id = order[idx]
        /\ LET r == RowOf(dept_rows, args.external_id)
           IN  HasEdge(dept_rows, r) =>
                /\ r.parent_external_id \in DOMAIN ext_to_id
                /\ args.parent_id = ext_to_id[r.parent_external_id]
                /\ args.parent_id # NoId
    /\ \A i \in 1..Len(calls) :
        (calls[i].op = "create" /\ HasEdge(dept_rows, RowOf(dept_rows, calls[i].ext))) =>
            LET pe == RowOf(dept_rows, calls[i].ext).parent_external_id
            IN  pe \in DOMAIN ext_to_id /\ calls[i].parent = ext_to_id[pe]

C9_Witness ==
    /\ Len(dept_rows) = 2
    /\ dept_rows[1].parent_external_id = dept_rows[2].external_id
    /\ dept_rows[2].parent_external_id = ""
    /\ pc = "create"
    /\ args.external_id = dept_rows[1].external_id
    /\ args.parent_id # NoId
    /\ Len(outcomes) = 1 /\ outcomes[1].how = "created"
    /\ args.parent_id = outcomes[1].id

\* the position of a nickname in user_rows
UserIndex(nick) == CHOOSE i \in 1..Len(user_rows) : user_rows[i].nickname = nick

\* C10: a user whose dept_external_id is not in ext_to_id ends the run with
\* the unresolved-department error before a create-user request is sent for
\* that user or for a later one; the users before it have been sent and stay
\* on the service.
C10_UnresolvedDepartment ==
    LET sent == CallsOf({ "create_user" })
    IN  /\ \A i \in 1..Len(sent) :
            /\ i <= Len(user_rows) /\ sent[i].nick = user_rows[i].nickname
            /\ \A m \in 1..i : user_rows[m].dept_external_id \in DOMAIN ext_to_id
        /\ (/\ pc = "failed" /\ error.where \in { "users", "create_user" }
            /\ uidx \in 1..Len(user_rows)
            /\ user_rows[uidx].dept_external_id \notin DOMAIN ext_to_id) =>
                /\ error.type = "ValueError:department"
                /\ Len(sent) = uidx - 1
        /\ error.type = "ValueError:department" =>
                /\ pc = "failed"
                /\ user_rows[uidx].dept_external_id \notin DOMAIN ext_to_id
        /\ \A i \in 1..Len(sent) :
            sent[i].status = OK => sent[i].nick \in server_users

C10_Witness ==
    /\ pc = "failed"
    /\ error.type = "ValueError:department"
    /\ uidx = 2
    /\ Len(CallsOf({ "create_user" })) = 1
    /\ CallsOf({ "create_user" })[1].status = OK
    /\ user_rows[1].nickname \in server_users
    /\ user_rows[1].nickname \notin prev.users

-----------------------------------------------------------------------------
(* Claims about re-runs, adoption and conflicts *)

\* no client other than the run has written to the service
Alone == envLeft = MaxEnv

\* C3: in a second run with the same input, after a run that completed and
\* with no other client writing, no create-department and no
\* update-department request is sent, every department is a step-1 hit, the
\* service's departments and users are what they were when the run started,
\* no create-user request is answered with a success, and no two departments
\* of the service share an external id.
C3_SecondRunChangesNothing ==
    /\ Alone => UniqueExt(server_depts)
    /\ (Alone /\ run >= 2) =>
        /\ \A i \in 1..Len(calls) : calls[i].op \in { "list", "create_user" }
        /\ \A i \in 1..Len(outcomes) : outcomes[i].how = "hit"
        /\ server_depts = prev.depts
        /\ server_users = prev.users
        /\ \A i \in 1..Len(calls) :
            calls[i].op = "create_user" => calls[i].status # OK
        /\ \A i \in 1..Len(results) : results[i].status = "exists"
        /\ pc \notin { "update", "create", "recheck" }

C3_Witness ==
    /\ Alone /\ run = 2 /\ pc = "done"
    /\ Len(outcomes) = 2 /\ Len(results) = 2
    /\ Len(server_depts) > PageCap
    /\ \A i \in 1..2 : outcomes[i].how = "hit" /\ results[i].status = "exists"

\* the cache holds a department of the record's name that has no external id
AdoptableInCache ==
    \E i \in 1..Len(DEPT_CACHE) :
        DEPT_CACHE[i].name = args.name /\ DEPT_CACHE[i].externalId = ""

\* C4: whenever the cache holds a department of the record's name with an
\* empty external id and no cache entry carries the record's external id,
\* ensure_department adopts it: an update is sent, and a create is sent only
\* after that update failed -- whatever else the cache holds.
C4_LegacyDepartmentAdopted ==
    (pc = "create" /\ ~args.fell /\ ~HasExt(DEPT_CACHE, args.external_id)) =>
        ~AdoptableInCache

\* C5: a create answered with 409 starts a full refresh of the cache,
\* after which the external id is looked up again: found, its id is returned
\* without error and the cache is the listing just fetched, nothing appended;
\* not found, the run fails with the 409, no id is returned and no mapping
\* entry is recorded.
C5_ConflictThenRefresh ==
    /\ (calls # << >> /\ calls[Len(calls)].op = "create"
        /\ calls[Len(calls)].status = Conflict) =>
            /\ pc = "list" /\ listFor = "conflict" /\ page = 1 /\ result = << >>
            /\ error = NoError
            /\ calls[Len(calls)].ext = args.external_id
    /\ pc = "recheck" =>
            /\ DEPT_CACHE = result
            /\ calls[Len(calls)].op = "list"
            /\ \E i \in 1..Len(calls) :
                /\ calls[i].op = "create" /\ calls[i].status = Conflict
                /\ calls[i].ext = args.external_id
                /\ \A j \in (i + 1)..Len(calls) :
                    calls[j].op = "list" /\ calls[j].page = j - i /\ calls[j].status = OK
    /\ error.where = "recheck" =>
            /\ pc = "failed"
            /\ error.type = "HTTPError" /\ error.status = Conflict
            /\ ~(\E i \in 1..Len(DEPT_CACHE) : DEPT_CACHE[i].externalId = args.external_id)
            /\ args.external_id \notin DOMAIN ext_to_id
            /\ \A i \in 1..Len(outcomes) : outcomes[i].ext # args.external_id
            /\ DEPT_CACHE = result
    /\ (outcomes # << >> /\ outcomes[Len(outcomes)].how = "conflict_resolved"
        /\ pc = "loop" /\ idx = Len(outcomes) + 1) =>
            LET o == outcomes[Len(outcomes)]
            IN  /\ error = NoError
                /\ DEPT_CACHE = result
                /\ o.ext \in DOMAIN ext_to_id /\ ext_to_id[o.ext] = o.id
                /\ \E i \in 1..Len(DEPT_CACHE) :
                    DEPT_CACHE[i].externalId = o.ext /\ DEPT_CACHE[i].id = o.id
                /\ calls[Len(calls)].op = "list"

C5_Witness ==
    /\ outcomes # << >> /\ outcomes[Len(outcomes)].how = "conflict_resolved"
    /\ pc = "loop" /\ idx = Len(outcomes) + 1
    /\ DEPT_CACHE = result
    /\ ext_to_id[outcomes[Len(outcomes)].ext] = outcomes[Len(outcomes)].id

\* the other case of C5: the 409 stays unexplained and ends the run
C5_WitnessUnexplained ==
    /\ pc = "failed" /\ error.where = "recheck" /\ error.status = Conflict
    /\ args.external_id \notin DOMAIN ext_to_id

\* C6: a request answered 503 on its first two attempts and with a success
\* on the third completes successfully after exactly two backoff sleeps; a
\* request answered 503 on every attempt ends with the retries-exhausted
\* error.
C6_RetriedThroughTransient ==
    lastCall.op # "" =>
        /\ (lastCall.plan.k = 2 /\ lastCall.plan.final = OK) =>
                /\ lastCall.kind = "return" /\ lastCall.status = OK
                /\ lastCall.calls = 3 /\ Len(lastCall.sleeps) = 2
                /\ ~(pc = "failed" /\ error.where = lastCall.op)
        /\ lastCall.plan.k = Retries =>
                /\ lastCall.kind = "RuntimeError"
                /\ lastCall.calls = Retries

\* C7: a transient failure (429, 500, 502, 503, 504) of a list, create,
\* update or create-user request is retried inside the wrapper and does not
\* end the run while the retry budget is not used up.
C7_TransientNeverSurfaces ==
    (pc = "failed" /\ error.where \in { "list", "create", "update", "create_user" }
     /\ lastCall.plan.k > 0) =>
        lastCall.calls = Retries

-----------------------------------------------------------------------------
\* The user step: conflicts and the result list

\* the answers of the create-user calls of this run, in the order of the calls
UserCalls == CallsOf({ "create_user" })

\* the result record the answer of a create-user call leads to
StatusFor(status) == IF status = Conflict THEN "exists" ELSE "created"

\* C11: a 409 answer to a create-user call gives the result "exists" for that
\* nickname, is not an error and does not stop the loop: the i-th result is
\* that of the i-th input user, "exists" exactly when the i-th call was
\* answered 409 and "created" otherwise, after a 409 the loop stands at the
\* next user (the run fails there only if that user's department is
\* unresolved), and a completed run has one result per input user, in input
\* order.
C11_ConflictIsExists ==
    /\ Len(results) <= Len(user_rows)
    /\ \A i \in 1..Len(results) :
        /\ results[i].nickname = user_rows[i].nickname
        /\ results[i].status \in { "created", "exists" }
        /\ i <= Len(UserCalls)
        /\ UserCalls[i].nick = user_rows[i].nickname
        /\ results[i].status = StatusFor(UserCalls[i].status)
    /\ (Len(calls) > 0 /\ calls[Len(calls)].op = "create_user"
            /\ calls[Len(calls)].status = Conflict)
        => /\ Len(results) = Len(UserCalls)
           /\ pc \in { "users", "done", "failed" }
           /\ pc # "done" => uidx = Len(results) + 1
           /\ pc = "failed" => /\ error.type = "ValueError:department"
                               /\ ~DeptResolved(user_rows[uidx], ext_to_id)
           /\ pc # "failed" => error = NoError
    /\ pc = "done" => Len(results) = Len(user_rows)

\* a completed run whose first user existed and whose second was created
C11_Witness ==
    /\ pc = "done"
    /\ Len(results) = 2
    /\ results[1].status = "exists"
    /\ results[2].status = "created"

-----------------------------------------------------------------------------
\* The user step starts after the department step and the final refresh

\* the position in calls of the first create-user call, 0 if there is none
FirstUserCall ==
    FirstOf({ i \in 1..Len(calls) : calls[i].op = "create_user" })

\* the calls of cs from position j to position k are the pages 1, 2, ... of
\* one refresh, each answered without error
IsRefreshIn(cs, j, k) ==
    /\ 1 <= j /\ j <= k /\ k <= Len(cs)
    /\ \A i \in j..k : /\ cs[i].op = "list"
                       /\ cs[i].page = i - j + 1
                       /\ cs[i].status = OK

IsRefresh(j, k) == IsRefreshIn(calls, j, k)

\* C12: no create-user call is sent until every department record has been
\* processed (ext_to_id covers the input's external ids) and a refresh that
\* started after the last department was processed has completed: the calls
\* right before the first create-user call are the pages of that refresh,
\* whose listing is the cache.
C12_UsersAfterDepartments ==
    (FirstUserCall # 0 \/ pc \in { "users", "done" })
    => /\ Len(outcomes) = Len(dept_rows)
       /\ idx > Len(order)
       /\ ByExt(dept_rows) \subseteq DOMAIN ext_to_id
       /\ listFor = "after"
       /\ DEPT_CACHE = result
       /\ LET f == IF FirstUserCall # 0 THEN FirstUserCall ELSE Len(calls) + 1
          IN  \E j \in 1..(f - 1) :
                /\ IsRefresh(j, f - 1)
                /\ \A i \in 1..Len(calls) :
                     calls[i].op \in { "create", "update" } => i < j

\* two departments were created, the final refresh took two pages, and a
\* create-user call has been sent
C12_Witness ==
    /\ FirstUserCall > 2
    /\ Len(dept_rows) = 2
    /\ calls[FirstUserCall - 1].op = "list"
    /\ calls[FirstUserCall - 1].page = 2
    /\ \A i \in 1..Len(outcomes) : outcomes[i].how = "created"

-----------------------------------------------------------------------------
\* A parent that is not in the input

\* the record ensure_department is working on
CurrentRow == RowOf(dept_rows, args.external_id)

\* the record's parent is named, and is not a record of the input
ParentOutOfSet(r) ==
    r.parent_external_id # "" /\ r.parent_external_id \notin ByExt(dept_rows)

\* C14: a record whose parent_external_id is not an id of the input has
\* in-degree 0, and when it is created its parent is the department the cache
\* holds under that external id: the create carries that department's id as
\* parent.
C14_ParentFromCache ==
    (pc = "create" /\ ParentOutOfSet(CurrentRow))
    => /\ Indeg(dept_rows)[args.external_id] = 0
       /\ LET p == find_department_by_external_id(DEPT_CACHE,
                                                  CurrentRow.parent_external_id)
          IN  p # 0 => args.parent_id = DEPT_CACHE[p].id

-----------------------------------------------------------------------------
\* Fail-fast

LastOf(s) == s[Len(s)]

\* the answer ends the run when it comes from that operation: any error for
\* list, any error but 409 for create and create user; the error of an
\* update is caught (line 113) and a 409 on create starts a refresh
Fatal(c) ==
    /\ c.status # OK
    /\ \/ c.op = "list"
       \/ c.op \in { "create", "create_user" } /\ c.status # Conflict

\* the departments and users this run was told it created
CreatedDepts == { c.ext : c \in { calls[i] : i \in { j \in 1..Len(calls) :
                    calls[j].op = "create" /\ calls[j].status = OK } } }

CreatedUsers == { c.nick : c \in { calls[i] : i \in { j \in 1..Len(calls) :
                    calls[j].op = "create_user" /\ calls[j].status = OK } } }

\* C15: once a create-department call fails with an error other than 409, a
\* 409 stays unexplained after the refresh, a user refers to an unresolved
\* department, or a create-user call fails with an error other than 409, the
\* run is over and no further request is sent: a fatal answer is the last
\* call of the run, the run has failed with that answer as its error, and a
\* failed run has sent nothing after the point of failure; what the run
\* created before is still on the service.
C15_FailFast ==
    /\ \A i \in 1..Len(calls) :
         Fatal(calls[i])
         => /\ i = Len(calls)
            /\ pc = "failed"
            /\ error = Err("HTTPError", calls[i].status,
                           IF calls[i].op = "list" THEN "list" ELSE calls[i].op)
    /\ (pc = "failed" /\ error.where = "recheck")
       => /\ error.status = Conflict
          /\ LastOf(calls).op = "list"
          /\ \E i \in 1..Len(calls) :
               /\ calls[i].op = "create" /\ calls[i].status = Conflict
               /\ calls[i].ext = args.external_id
               /\ \A j \in (i + 1)..Len(calls) : calls[j].op = "list"
          /\ CallsOf({ "create_user" }) = << >>
    /\ (pc = "failed" /\ error.type = "ValueError:department")
       => /\ Len(CallsOf({ "create_user" })) = uidx - 1
          /\ Len(calls) > 0
          /\ LastOf(calls).status \in { OK, Conflict }
    /\ pc = "failed"
       => /\ CreatedDepts \subseteq { server_depts[i].externalId : i \in 1..Len(server_depts) }
          /\ CreatedUsers \subseteq server_users

\* a run that failed on its second create after the first had succeeded
C15_Witness ==
    /\ pc = "failed"
    /\ error.where = "create"
    /\ Len(CallsOf({ "create" })) = 2
    /\ Cardinality(CreatedDepts) = 1

-----------------------------------------------------------------------------
\* The update of step 2 fails

\* this step sent the update of step 2 and its answer was an error
UpdateFailedNow ==
    /\ pc = "update"
    /\ Len(calls') = Len(calls) + 1
    /\ calls'[Len(calls')].op = "update"
    /\ calls'[Len(calls')].status # OK

\* the run stands after a failed update, before the create of step 3
AfterFailedUpdate == pc = "create" /\ args.fell

\* C16: when the update of step 2 is answered with an HTTP error the run
\* does not fail: the cache, the mapping and the record stay as they were,
\* and the next request of the run is the create of step 3 for the same
\* record, whose answer decides the record's outcome (created, the refresh of
\* a 409, or the failure of the run).
C16_UpdateFailureFallsToCreate ==
    [][ /\ UpdateFailedNow
          => /\ pc' = "create"
             /\ error' = NoError
             /\ DEPT_CACHE' = DEPT_CACHE
             /\ ext_to_id' = ext_to_id
             /\ outcomes' = outcomes
             /\ args' = [args EXCEPT !.fell = TRUE]
        /\ (AfterFailedUpdate /\ calls' # calls)
          => /\ Len(calls') = Len(calls) + 1
             /\ calls'[Len(calls')].op = "create"
             /\ calls'[Len(calls')].ext = calls[Len(calls)].ext
             /\ calls[Len(calls)].op = "update"
             /\ \/ pc' = "loop" /\ outcomes'[Len(outcomes')] =
                      [ext |-> args.external_id, how |-> "created",
                       id |-> ext_to_id'[args.external_id]]
                \/ pc' = "list" /\ listFor' = "conflict"
                \/ pc' = "failed" /\ error'.where = "create"
      ]_vars

\* a record was created after the update that would have adopted a
\* department of its name had failed
C16_Witness ==
    /\ Len(calls) >= 2
    /\ calls[Len(calls) - 1].op = "update"
    /\ calls[Len(calls) - 1].status = BadRequest
    /\ calls[Len(calls)].op = "create"
    /\ calls[Len(calls)].status = OK
    /\ outcomes # << >>
    /\ outcomes[Len(outcomes)].how = "created"

-----------------------------------------------------------------------------
\* The refresh of the cache

\* the number of pages the service's list has now
TotalPages ==
    IF server_depts = << >> THEN 1
    ELSE CHOOSE n \in 1..Len(server_depts) :
            /\ n * PageSize >= Len(server_depts)
            /\ (n - 1) * PageSize < Len(server_depts)

\* no department occurs twice in the cache
NoDuplicate(cache) ==
    \A i, j \in 1..Len(cache) : cache[i].id = cache[j].id => i = j

\* C17: a refresh starts at page 1 with an empty listing, fetches the pages
\* one after the other, each once and in increasing order, and ends at the
\* last page; when it ends the cache is replaced as a whole by the listing,
\* which is the service's department list at the instant of that last
\* answer, no department missing and none twice (other clients only add
\* departments while the refresh runs); a refresh that fails leaves the
\* cache as it was.
C17_RefreshReplacesCache ==
    [][ /\ (pc # "list" /\ pc' = "list") => (page' = 1 /\ result' = << >>)
        /\ (pc = "list" /\ calls' # calls)
           => LET n == Len(calls) + 1
              IN  /\ Len(calls') = n
                  /\ calls'[n].op = "list"
                  /\ calls'[n].page = page
                  /\ pc' = "list"
                     => /\ calls'[n].status = OK
                        /\ page < TotalPages
                        /\ page' = page + 1
                        /\ DEPT_CACHE' = DEPT_CACHE
                  /\ pc' = "failed"
                     => /\ calls'[n].status # OK
                        /\ DEPT_CACHE' = DEPT_CACHE
                  /\ pc' \notin { "list", "failed" }
                     => /\ calls'[n].status = OK
                        /\ page = TotalPages
                        /\ IsRefreshIn(calls', n - page + 1, n)
                        /\ DEPT_CACHE' = server_depts
                        /\ NoDuplicate(DEPT_CACHE')
      ]_vars

\* a refresh of two pages has replaced a cache of two entries by the three
\* departments of the service, one of them written by another client
C17_Witness ==
    /\ pc = "recheck"
    /\ envLeft = 0
    /\ Len(DEPT_CACHE) = 3
    /\ DEPT_CACHE = server_depts
    /\ LastOf(calls).op = "list"
    /\ LastOf(calls).page = 2

-----------------------------------------------------------------------------
\* The cache between two refreshes

\* the step is a local change of the cache by ensure_department
LocalMutation ==
    /\ pc \in { "update", "create" }
    /\ DEPT_CACHE' # DEPT_CACHE

\* the step is a lookup that returns the id of a cache entry: the hit of step
\* 1, or the lookup that follows the refresh of a 409
LookupReturns ==
    /\ pc \in { "lookup", "recheck" }
    /\ outcomes' # outcomes

\* C18: the cache holds at most one entry per non-empty external id after a
\* refresh, and the overwrite of the adopted entry and the append of the
\* created one keep it so: no two entries of the cache ever share a non-empty
\* external id; a hit of step 1 and the lookup after a 409 leave the cache
\* as it is.
C18_CacheKeysStayUnique ==
    /\ []UniqueExt(DEPT_CACHE)
    /\ [][ /\ (LocalMutation /\ UniqueExt(DEPT_CACHE)) => UniqueExt(DEPT_CACHE')
           /\ LocalMutation =>
                \E i \in 1..Len(DEPT_CACHE') :
                    /\ DEPT_CACHE'[i].externalId = args.external_id
                    /\ DEPT_CACHE'[i].id = ext_to_id'[args.external_id]
           /\ LookupReturns =>
                /\ DEPT_CACHE' = DEPT_CACHE
                /\ outcomes'[Len(outcomes')].how \in { "hit", "conflict_resolved" }
         ]_vars

\* the cache of the initial refresh holds an entry that was overwritten by
\* an adoption and one that was appended by a create
C18_Witness ==
    /\ Len(outcomes) = 2
    /\ outcomes[1].how = "adopted"
    /\ outcomes[2].how = "created"
    /\ HasExt(DEPT_CACHE, outcomes[1].ext)
    /\ HasExt(DEPT_CACHE, outcomes[2].ext)
    /\ listFor = "init"

-----------------------------------------------------------------------------
\* What the update of step 2 may touch

UpdateCalls == CallsOf({ "update" })

\* the fields an update may carry
UpdateFields == { "externalId", "label", "description" }

\* C19: an update is sent only against a cache entry whose external id is
\* empty and whose name is the record's, at most once per input record, and
\* with no field other than externalId, label and description; a department
\* whose cached external id is not empty is never updated, and no department
\* is adopted by two different records of one run.
C19_UpdateOnlyLegacy ==
    /\ pc = "update"
       => \E i \in 1..Len(DEPT_CACHE) :
            /\ DEPT_CACHE[i].id = args.target
            /\ DEPT_CACHE[i].externalId = ""
            /\ DEPT_CACHE[i].name = args.name
            /\ \A j \in 1..Len(DEPT_CACHE) :
                 DEPT_CACHE[j].id = args.target => DEPT_CACHE[j].externalId = ""
    /\ \A i \in 1..Len(UpdateCalls) :
         /\ UpdateCalls[i].keys \subseteq UpdateFields
         /\ UpdateCalls[i].ext \in ByExt(dept_rows)
         /\ \A j \in 1..Len(UpdateCalls) :
              /\ UpdateCalls[i].ext = UpdateCalls[j].ext => i = j
              /\ (UpdateCalls[i].id = UpdateCalls[j].id /\ i # j)
                 => (UpdateCalls[i].status # OK \/ UpdateCalls[j].status # OK)
    /\ \A i, j \in 1..Len(outcomes) :
         (outcomes[i].how = "adopted" /\ i # j) => outcomes[i].id # outcomes[j].id

\* two records of the same name: the first adopted the department of that
\* name, the second did not
C19_Witness ==
    /\ Len(dept_rows) = 2
    /\ dept_rows[1].name = dept_rows[2].name
    /\ Len(outcomes) = 2
    /\ outcomes[1].how = "adopted"
    /\ outcomes[2].how = "created"
    /\ Len(UpdateCalls) = 1

-----------------------------------------------------------------------------
\* The delays of backoff_retry

\* the number of transient failures the operation starts with
LeadingTransient(fn) ==
    Cardinality({ j \in 1..Len(fn) : \A m \in 1..j : TransientFailure(fn[m]) })

\* C20: with retries = N and base = b the operation is invoked at most N
\* times, the sleep after the i-th transient failure (i from 0) lasts b * 2^i,
\* and a sleep follows every transient failure, the N-th included: when all N
\* invocations fail transiently there are N invocations and N sleeps of
\* b * (2^N - 1) in total before RuntimeError("Max retries exceeded") is raised.
C20_BackoffSchedule ==
    pc = "retry_out" =>
        LET N == h_in.retries
            b == h_in.base
            t == LeadingTransient(h_in.fn)
        IN  /\ h_out.calls <= N
            /\ h_out.calls = IF t = N THEN N ELSE t + 1
            /\ Len(h_out.sleeps) = t
            /\ \A i \in 0..(t - 1) : h_out.sleeps[i + 1] = b * 2^i
            /\ h_out.kind = "RuntimeError" <=> t = N
            /\ t = N => /\ Len(h_out.sleeps) = N
                        /\ SumSeq(h_out.sleeps) = b * (2^N - 1)

\* three attempts, all answered 503, with base 2: sleeps of 2, 4 and 8
C20_Witness ==
    /\ pc = "retry_out"
    /\ h_in.fn = << Raise(503), Raise(503), Raise(503) >>
    /\ h_in.base = 2
    /\ h_out.kind = "RuntimeError"
    /\ h_out.calls = 3
    /\ h_out.sleeps = << 2, 4, 8 >>

-----------------------------------------------------------------------------
(* SpecRace: two runs of the workflow on the same department input, at the *)
(* same time, against one service.  The variables of the workflow are     *)
(* those of the run that takes the next step; h_out holds those of the    *)
(* other run and h_in says which of the two is running.  A run is only    *)
(* interrupted where its next step is a request: the steps between two    *)
(* requests read and write nothing but the run's own memory.              *)

\* the memory of the running process
LocalState ==
    [DEPT_CACHE |-> DEPT_CACHE, pc |-> pc, page |-> page, result |-> result,
     listFor |-> listFor, order |-> order, idx |-> idx, ext_to_id |-> ext_to_id,
     args |-> args, uidx |-> uidx, results |-> results, error |-> error,
     calls |-> calls, lastCall |-> lastCall, outcomes |-> outcomes]

InitRace ==
    /\ dept_rows \in MainDeptInputs
    /\ user_rows = << >>
    /\ server_depts \in ServerInits
    /\ server_users = {}
    /\ StartRun
    /\ run = 1
    /\ prev = [depts |-> server_depts, users |-> server_users]
    /\ envLeft = 0
    /\ h_in = 1
    /\ h_out = LocalState

\* the other run goes on
Switch ==
    /\ pc \in { "list", "update", "create", "done", "failed" }
    /\ h_out.pc \notin { "done", "failed" }
    /\ h_out' = LocalState
    /\ h_in' = 3 - h_in
    /\ DEPT_CACHE' = h_out.DEPT_CACHE /\ pc' = h_out.pc /\ page' = h_out.page
    /\ result' = h_out.result /\ listFor' = h_out.listFor /\ order' = h_out.order
    /\ idx' = h_out.idx /\ ext_to_id' = h_out.ext_to_id /\ args' = h_out.args
    /\ uidx' = h_out.uidx /\ results' = h_out.results /\ error' = h_out.error
    /\ calls' = h_out.calls /\ lastCall' = h_out.lastCall
    /\ outcomes' = h_out.outcomes
    /\ UNCHANGED << dept_rows, user_rows, server_depts, server_users, runVars, envLeft >>

\* the request is answered at once: with a success, a conflict or an error
\* of the service
AnsweredAtOnce == lastCall'.plan.k = 0

\* the service answers 409 to a create exactly when the external id is
\* already present
ConflictMeansPresent ==
    calls'[Len(calls')].status = Conflict => HasExt(server_depts, args.external_id)

RaceList == ListPage /\ AnsweredAtOnce

RaceUpdate == UpdateCall /\ AnsweredAtOnce

RaceCreate == CreateCall /\ AnsweredAtOnce /\ ConflictMeansPresent

NextRace ==
    \/ RaceList
    \/ BuildHierarchy
    \/ NextDept
    \/ DeptsDone
    \/ Lookup
    \/ RaceUpdate
    \/ RaceCreate
    \/ Recheck
    \/ UsersDone
    \/ Switch

SpecRace == InitRace /\ [][NextRace]_vars

\* the two runs: the one that is running and the one that waits
Runs == { LocalState, h_out }

\* the run failed on a conflict: a 409 that its refresh did not explain, or
\* an update or create refused because of what the other run wrote
FailedOnConflict(r) ==
    /\ r.pc = "failed"
    /\ \/ r.error.where = "recheck"
       \/ r.error.status \in { Conflict, NotFound }
       \/ r.error.type = "RuntimeError:parent"

\* the run failed on its own: the input is cyclic, or the service answered
\* one of its requests with an error that is not a conflict
FailedAlone(r) ==
    /\ r.pc = "failed"
    /\ \/ r.error.type = "ValueError:cycle"
       \/ /\ r.error = Err("HTTPError", BadRequest, r.error.where)
          /\ r.error.where \in { "list", "create" }
          /\ r.calls[Len(r.calls)].status = BadRequest

\* the run is through the department step
DeptStepDone(r) == r.pc \in { "users", "done" } \/ (r.pc = "list" /\ r.listFor = "after")

=============================================================================
